---------------------------- MODULE Spec2Model ----------------------------
(***************************************************************************)
(* A model of riftspire/lorekeeper: the command-line entry point           *)
(* (newLorekeeperCmd), the mode registry (GetModes, GetModeByName), the    *)
(* release-notes procedure (MakeReleaseNotes) and its helper runCmd.       *)
(*                                                                         *)
(* Representation of Go values                                             *)
(*   - a Go string is a sequence of tokens.  Names and pull-request        *)
(*     numbers are sequences of one-character strings; the text a command  *)
(*     prints is a sequence of tokens in which NL is the line break.  A    *)
(*     JSON document inside a text is one token naming its content.        *)
(*   - time.Time is a natural number; the zero time.Time is 0.             *)
(*   - one run of the program is one behaviour: Init draws the arguments   *)
(*     and the state of the repository (the reference source), and every   *)
(*     external command the code issues is one step whose outcome (the     *)
(*     child process failing or not) is chosen by the environment.         *)
(***************************************************************************)
EXTENDS Integers, Sequences, FiniteSets

(***************************************************************************)
(* Bounds of the model.                                                    *)
(***************************************************************************)
\* The longest release/tag list the reference source holds.
MaxRefs == 2
\* The number of merged pull requests the reference source holds.
MaxPRs == 3
\* The largest count of -v flags given on the command line.
MaxVerbosityArg == 3

(***************************************************************************)
(* Strings.                                                                *)
(***************************************************************************)
EmptyStr == << >>
NL == "\n"

V1 == <<"v", "1">>
V1RC == <<"v", "1", "-", "r", "c">>
V2RC == <<"v", "2", "-", "r", "c">>
V2B == <<"v", "2", "-", "b">>
TagNames == {V1, V1RC, V2RC, V2B}

PatRC == <<"-", "r", "c">>
PatB == <<"-", "b">>
PatAny == << >>
PatBad == <<"(">>
Patterns == {PatRC, PatB, PatAny, PatBad}

BranchNames == {"main", "dev"}

\* s has p as a contiguous substring
Contains(s, p) ==
    \E i \in 0..Len(s) :
        /\ i + Len(p) <= Len(s)
        /\ SubSeq(s, i + 1, i + Len(p)) = p

\* regexp.MustCompile panics on a pattern that does not compile; the
\* patterns drawn here are literals, and "(" alone is a missing ")".
RegexpCompiles(pattern) == \A i \in 1..Len(pattern) : pattern[i] # "("

\* (*Regexp).MatchString for a literal pattern: an unanchored match
MatchString(pattern, s) == Contains(s, pattern)

\* strings.SplitSeq(s, sep): the segments of s between the separators, the
\* empty string giving the one segment "".
RECURSIVE SplitSeq(_, _)
SplitSeq(s, sep) ==
    IF \A i \in 1..Len(s) : s[i] # sep
    THEN << s >>
    ELSE LET i == CHOOSE k \in 1..Len(s) :
                      s[k] = sep /\ \A j \in 1..(k - 1) : s[j] # sep
         IN  << SubSeq(s, 1, i - 1) >> \o SplitSeq(SubSeq(s, i + 1, Len(s)), sep)

(***************************************************************************)
(* The mode registry.                                                      *)
(***************************************************************************)
ModeRelease == [Name |-> "release", VarName |-> "ModeRelease"]
ModeTag == [Name |-> "tag", VarName |-> "ModeTag"]
nilMode == [Name |-> "", VarName |-> ""]
\* a mode value a caller of the package builds by copying ModeRelease and
\* changing a field: equal to neither registered mode
ModeCustom == [Name |-> "release", VarName |-> "ModeCustom"]
ModeValues == {ModeRelease, ModeTag, nilMode, ModeCustom}

ModeNames == {"release", "tag", "Release", ""}

GetModes == << ModeRelease, ModeTag >>

NoError == [kind |-> "nil", Mode |-> nilMode, Name |-> ""]
Running == [kind |-> "running", Mode |-> nilMode, Name |-> ""]
\* a run-time panic: AllLogLevels indexed out of range, a pattern that
\* regexp.MustCompile rejects
PanicIndexOutOfRange ==
    [kind |-> "panic: index out of range", Mode |-> nilMode, Name |-> ""]
PanicRegexp == [kind |-> "panic: regexp: Compile", Mode |-> nilMode, Name |-> ""]
DefaultBranchReleaseCandidateError ==
    [kind |-> "DefaultBranchReleaseCandidateError", Mode |-> nilMode, Name |-> ""]
NoPullRequestsFoundError ==
    [kind |-> "NoPullRequestsFoundError", Mode |-> nilMode, Name |-> ""]
ModeInvalidError(m) == [kind |-> "ModeInvalidError", Mode |-> m, Name |-> ""]
ModeGetByNameError(name) ==
    [kind |-> "ModeGetByNameError", Mode |-> nilMode, Name |-> name]

\* GetModeByName falling back to the first mode for a name it does not know
GetModeByName_Fallback(name) ==
    IF \E i \in 1..Len(GetModes) : GetModes[i].Name = name
    THEN [mode |-> GetModes[CHOOSE i \in 1..Len(GetModes) : GetModes[i].Name = name],
          err |-> NoError]
    ELSE [mode |-> GetModes[1], err |-> NoError]

\* the first registered mode with that name, else nilMode and the error
GetModeByName(name) ==
    IF \E i \in 1..Len(GetModes) : GetModes[i].Name = name
    THEN [mode |-> GetModes[CHOOSE i \in 1..Len(GetModes) :
                                /\ GetModes[i].Name = name
                                /\ \A j \in 1..(i - 1) : GetModes[j].Name # name],
          err |-> NoError]
    ELSE [mode |-> nilMode, err |-> ModeGetByNameError(name)]


(***************************************************************************)
(* Logging (cmd/lorekeeper).                                               *)
(***************************************************************************)
AllLogLevels == << "debug", "info", "warn", "error", "fatal" >>
defaultLogLevel == "warn"

\* the 0-based index of level in AllLogLevels, -1 when it is not there
logLevelIndex(level) ==
    IF \E i \in 1..Len(AllLogLevels) : AllLogLevels[i] = level
    THEN (CHOOSE i \in 1..Len(AllLogLevels) :
              /\ AllLogLevels[i] = level
              /\ \A j \in 1..(i - 1) : AllLogLevels[j] # level) - 1
    ELSE -1

Max(a, b) == IF a >= b THEN a ELSE b

\* Arguments.setLogVerbosity: the verbosity and log level it leaves, and
\* whether indexing AllLogLevels went out of range (a run-time panic)
setLogVerbosity(verbosity, level) ==
    IF verbosity <= 0
    THEN [Verbosity |-> verbosity, level |-> level, panic |-> FALSE]
    ELSE LET defaultLogLevelIndex == logLevelIndex(defaultLogLevel)
             maxVerbosity == Len(AllLogLevels) - defaultLogLevelIndex - 1
             capped == Max(verbosity, maxVerbosity)
             index == defaultLogLevelIndex + capped
         IN  IF index < 0 \/ index >= Len(AllLogLevels)
             THEN [Verbosity |-> capped, level |-> level, panic |-> TRUE]
             ELSE [Verbosity |-> capped, level |-> AllLogLevels[index + 1],
                   panic |-> FALSE]

(***************************************************************************)
(* The reference source: the repository and hosting platform the external  *)
(* commands query.  A JSON document in a command's output is one token     *)
(* naming its content.                                                     *)
(***************************************************************************)
zeroRef == [publishedAt |-> 0, tagName |-> EmptyStr]

\* every reference the source may hold, newest first
AllRefs ==
    << [publishedAt |-> 20, tagName |-> V2B],
       [publishedAt |-> 10, tagName |-> V2RC],
       [publishedAt |-> 5, tagName |-> V1],
       [publishedAt |-> 3, tagName |-> V1RC] >>
RefJSON == << "{ref:v2-b}", "{ref:v2-rc}", "{ref:v1}", "{ref:v1-rc}" >>

\* the newest-first lists of at most MaxRefs references
RefLists ==
    { [k \in 1..Cardinality(S) |->
           AllRefs[CHOOSE x \in S : Cardinality({y \in S : y < x}) = k - 1]] :
      S \in {T \in SUBSET (1..Len(AllRefs)) : Cardinality(T) <= MaxRefs} }

\* every merged pull request the source may hold, oldest first
AllPRs ==
    << [number |-> <<"2", "8">>, mergedAt |-> 4],
       [number |-> <<"2", "9">>, mergedAt |-> 8],
       [number |-> <<"3", "0">>, mergedAt |-> 12],
       [number |-> <<"3", "1">>, mergedAt |-> 16],
       [number |-> <<"3", "2">>, mergedAt |-> 18] >>
PRJSON == << "{pr:28}", "{pr:29}", "{pr:30}", "{pr:31}", "{pr:32}" >>

\* avatar URLs: one version parameter; none; two, one of them of two
\* digits; "v=" with no digit after it; "v=<digit>" ending another name
UrlV4 == <<"a", "?", "v", "=", "4">>
UrlNone == <<"b", "?", "u", "=", "1">>
UrlTwo == <<"c", "?", "v", "=", "1", "2", "&", "v", "=", "3">>
UrlNoDigits == <<"d", "?", "v", "=", "x">>
UrlRev == <<"e", "?", "r", "e", "v", "=", "7">>

Author(login, url) == [Login |-> login, AvatarURL |-> url]
Commit(authors) == [Authors |-> authors]

\* the commits of the k-th pull request, each with its authors
CommitsOf(k) ==
    CASE k = 1 -> << Commit(<< Author("alice", UrlV4) >>),
                     Commit(<< Author("alice", UrlV4), Author("bob", UrlNone) >>) >>
      [] k = 2 -> << Commit(<< Author("carol", UrlTwo) >>) >>
      [] k = 3 -> << Commit(<< >>), Commit(<< Author("dave", UrlNoDigits) >>) >>
      [] k = 4 -> << Commit(<< Author("erin", UrlRev) >>) >>
      [] OTHER -> << >>

zeroPullRequest == [Title |-> EmptyStr, Body |-> EmptyStr, Commits |-> << >>]
\* the details of the k-th pull request
PullRequestOf(k) ==
    [Title |-> <<"T">> \o AllPRs[k].number, Body |-> <<"B">> \o AllPRs[k].number,
     Commits |-> CommitsOf(k)]

\* the merged pull requests of the source, newest first
SourcePRs == [i \in 1..MaxPRs |-> AllPRs[MaxPRs + 1 - i]]

\* the commit a tag points at
ShaOf(tag) == <<"c", ":">> \o tag

\* lines joined by line breaks, the last one terminated when `terminated`
RECURSIVE JoinLines(_, _)
JoinLines(lines, terminated) ==
    IF lines = << >> THEN << >>
    ELSE IF Len(lines) = 1
         THEN lines[1] \o (IF terminated THEN << NL >> ELSE << >>)
         ELSE lines[1] \o << NL >> \o JoinLines(Tail(lines), terminated)

\* a text without its line breaks
StripNL(text) == SelectSeq(text, LAMBDA t : t # NL)

RefDoc(ref) == RefJSON[CHOOSE i \in 1..Len(AllRefs) : AllRefs[i] = ref]
RefDocs(list) == [i \in 1..Len(list) |-> << RefDoc(list[i]) >>]

\* json.Unmarshal into a gitReference: the value and whether it failed; on
\* a failure the target keeps its zero value
UnmarshalRef(text) ==
    LET doc == StripNL(text)
    IN  IF Len(doc) = 1 /\ \E i \in 1..Len(RefJSON) : RefJSON[i] = doc[1]
        THEN [value |-> AllRefs[CHOOSE i \in 1..Len(RefJSON) : RefJSON[i] = doc[1]],
              err |-> FALSE]
        ELSE [value |-> zeroRef, err |-> TRUE]

\* json.Unmarshal into a gitPullRequest
UnmarshalPullRequest(text) ==
    LET doc == StripNL(text)
    IN  IF Len(doc) = 1 /\ \E i \in 1..Len(PRJSON) : PRJSON[i] = doc[1]
        THEN [value |-> PullRequestOf(CHOOSE i \in 1..Len(PRJSON) : PRJSON[i] = doc[1]),
              err |-> FALSE]
        ELSE [value |-> zeroPullRequest, err |-> TRUE]


(***************************************************************************)
(* State.                                                                  *)
(***************************************************************************)
VARIABLES
    entry,                  \* "cli": the program is run; "lib": MakeReleaseNotes is called
    cliMode,                \* cliArgs.Mode
    Verbosity,              \* cliArgs.Verbosity
    logLevel,               \* the level of the process-wide logger
    tagName,
    releaseCandidateRegex,
    currentBranchName,
    defaultBranchName,
    mode,
    refs,                   \* the source's releases (Release mode) or tags, newest first
    shaPR,                  \* the source's pull request for the tag's commit (0: none)
    terminated,             \* whether commands end their last output line with a line break
    pc,                     \* the statement the run is at
    result,                 \* what RunE (before its call) or MakeReleaseNotes returned
    calls,                  \* the external commands issued so far, with their outcomes
    stdout,                 \* what has been written to standard output
    latestTagCommit,
    prList,
    latestRefJSON,
    latestRef,
    pending                 \* the pull-request numbers the loop has still to visit

vars ==
    << entry, cliMode, Verbosity, logLevel, tagName, releaseCandidateRegex,
       currentBranchName, defaultBranchName, mode, refs, shaPR, terminated, pc,
       result, calls, stdout, latestTagCommit, prList, latestRefJSON, latestRef,
       pending >>

inputs ==
    << entry, cliMode, tagName, releaseCandidateRegex, currentBranchName,
       defaultBranchName, refs, shaPR, terminated >>

locals == << latestTagCommit, prList, latestRefJSON, latestRef, pending >>

(***************************************************************************)
(* What the source answers to each command: whether the command exits with *)
(* status zero, and the text it prints.  An answer is that of the query    *)
(* the command line is written to make (which references or pull requests, *)
(* in which order); whether the command line as written runs at all is the *)
(* environment's choice, made in Outcomes below.                           *)
(***************************************************************************)
TagExists(tag) == \E i \in 1..Len(refs) : refs[i].tagName = tag
RefNamed(tag) == refs[CHOOSE i \in 1..Len(refs) : refs[i].tagName = tag]

\* git rev-list -n 1 "<tag>"
RevListAnswer(tag) ==
    [exit |-> TagExists(tag), text |-> JoinLines(<< ShaOf(tag) >>, terminated)]

\* gh pr list --search "sha:<sha>" --json number | jq '.[].number'
PrListByShaAnswer(sha) ==
    LET numbers == IF StripNL(sha) = ShaOf(tagName) /\ TagExists(tagName) /\ shaPR # 0
                   THEN << AllPRs[shaPR].number >> ELSE << >>
    IN  [exit |-> TRUE, text |-> JoinLines(numbers, terminated)]

\* gh release view <tag>
ReleaseViewAnswer(tag) ==
    [exit |-> TagExists(tag),
     text |-> IF TagExists(tag)
              THEN JoinLines(<< << RefDoc(RefNamed(tag)) >> >>, terminated)
              ELSE EmptyStr]

\* head -n 1
FirstOf(lines) == IF lines = << >> THEN << >> ELSE << lines[1] >>

\* git for-each-ref refs/tags --sort=-creatordate --format ... | head -n 1
ForEachRefAnswer ==
    [exit |-> TRUE, text |-> JoinLines(FirstOf(RefDocs(refs)), terminated)]

\* git for-each-ref refs/tags --exclude="refs/tags/*-rc*" ... | head -n 1: the
\* newest tag whose name the fixed glob *-rc* does not match (the pattern of
\* the run is not used here)
ForEachRefExcludeAnswer ==
    LET kept == SelectSeq(refs, LAMBDA r : ~Contains(r.tagName, <<"-", "r", "c">>))
    IN  [exit |-> TRUE, text |-> JoinLines(FirstOf(RefDocs(kept)), terminated)]

\* gh release list --json publishedAt,tagName
ReleaseListAnswer ==
    [exit |-> TRUE, text |-> JoinLines(RefDocs(refs), terminated)]

\* gh pr list --state "merged" --search "merged:><time>" --json number | jq '.[].number'
PrListMergedAnswer(after) ==
    LET merged == SelectSeq(SourcePRs, LAMBDA p : p.mergedAt > after)
    IN  [exit |-> TRUE,
         text |-> JoinLines([i \in 1..Len(merged) |-> merged[i].number], terminated)]

\* gh pr view "<number>" --json title,body,commits
PrViewAnswer(number) ==
    LET known == {k \in 1..MaxPRs : AllPRs[k].number = number}
    IN  [exit |-> known # {},
         text |-> IF known # {}
                  THEN JoinLines(<< << PRJSON[CHOOSE k \in known : TRUE] >> >>, terminated)
                  ELSE EmptyStr]

(***************************************************************************)
(* runCmd.                                                                 *)
(***************************************************************************)
\* How a command can end: cmd.Run fails ("runErr"), cmd.Run succeeds and
\* cmd.Output fails ("outputErr"), both succeed ("ok").  A command that
\* exits with a non-zero status fails in cmd.Run.  runCmd hands the whole
\* command line to exec.Command as the program name and calls cmd.Output on
\* a command that cmd.Run has already run, so the failing outcomes are the
\* ones a run of the program as built meets; "ok" is the outcome the code
\* after each call is written for.
Outcomes(answer) ==
    {"runErr"} \cup (IF answer.exit THEN {"outputErr", "ok"} ELSE {})

Diagnostic(text) ==
    [kind |-> text, number |-> EmptyStr, Title |-> EmptyStr, Authors |-> << >>,
     Body |-> EmptyStr]

\* runCmd: the output and error it returns, and what it prints
runCmd(answer, outcome) ==
    CASE outcome = "runErr" ->
           [out |-> EmptyStr, err |-> TRUE,
            printed |-> << Diagnostic("ERROR: [cmd.Run]") >>]
      [] outcome = "outputErr" ->
           [out |-> EmptyStr, err |-> TRUE,
            printed |-> << Diagnostic("ERROR: [cmd.Output]") >>]
      [] OTHER ->
           [out |-> answer.text, err |-> FALSE,
            printed |-> << Diagnostic("DEBUG") >>]

Call(op, arg, after, outcome) ==
    [op |-> op, arg |-> arg, after |-> after, outcome |-> outcome]


(***************************************************************************)
(* MakeReleaseNotes: the pure parts.                                       *)
(***************************************************************************)
\* Resolve without the case that rejects a non-candidate tag off the default
\* branch: every tag off the default branch takes the single-pull-request path
Resolve_NoRestriction(tag, pattern, currentBranch, defaultBranch, m) ==
    LET tagIsReleaseCandidate == MatchString(pattern, tag)
        tagIsOnDefaultBranch == currentBranch = defaultBranch
    IN  CASE ~tagIsOnDefaultBranch ->
               [pc |-> "RevList", result |-> Running]
          [] tagIsOnDefaultBranch /\ tagIsReleaseCandidate ->
               (CASE m = ModeRelease -> [pc |-> "ReleaseView", result |-> Running]
                  [] m = ModeTag -> [pc |-> "ForEachRef", result |-> Running]
                  [] OTHER -> [pc |-> "done", result |-> ModeInvalidError(m)])
          [] OTHER ->
               (CASE m = ModeRelease -> [pc |-> "ReleaseList", result |-> Running]
                  [] m = ModeTag -> [pc |-> "ForEachRefExclude", result |-> Running]
                  [] OTHER -> [pc |-> "done", result |-> ModeInvalidError(m)])

\* Resolve with the mode switches lacking their default case: a mode that is
\* neither ModeRelease nor ModeTag runs no listing and goes on to the
\* merged-after query
Resolve_NoDefaultCase(tag, pattern, currentBranch, defaultBranch, m) ==
    LET tagIsReleaseCandidate == MatchString(pattern, tag)
        tagIsOnDefaultBranch == currentBranch = defaultBranch
    IN  CASE ~tagIsOnDefaultBranch /\ tagIsReleaseCandidate ->
               [pc |-> "RevList", result |-> Running]
          [] ~tagIsOnDefaultBranch /\ ~tagIsReleaseCandidate ->
               [pc |-> "done", result |-> DefaultBranchReleaseCandidateError]
          [] tagIsOnDefaultBranch /\ tagIsReleaseCandidate ->
               (CASE m = ModeRelease -> [pc |-> "ReleaseView", result |-> Running]
                  [] m = ModeTag -> [pc |-> "ForEachRef", result |-> Running]
                  [] OTHER -> [pc |-> "PrListMerged", result |-> Running])
          [] OTHER ->
               (CASE m = ModeRelease -> [pc |-> "ReleaseList", result |-> Running]
                  [] m = ModeTag -> [pc |-> "ForEachRefExclude", result |-> Running]
                  [] OTHER -> [pc |-> "PrListMerged", result |-> Running])

\* The switch of MakeReleaseNotes on the branch state, the candidate status
\* and the mode: the statement the run goes to, or the error it returns.
Resolve(tag, pattern, currentBranch, defaultBranch, m) ==
    LET tagIsReleaseCandidate == MatchString(pattern, tag)
        tagIsOnDefaultBranch == currentBranch = defaultBranch
    IN  CASE ~tagIsOnDefaultBranch /\ tagIsReleaseCandidate ->
               [pc |-> "RevList", result |-> Running]
          [] ~tagIsOnDefaultBranch /\ ~tagIsReleaseCandidate ->
               [pc |-> "done", result |-> DefaultBranchReleaseCandidateError]
          [] tagIsOnDefaultBranch /\ tagIsReleaseCandidate ->
               (CASE m = ModeRelease -> [pc |-> "ReleaseView", result |-> Running]
                  [] m = ModeTag -> [pc |-> "ForEachRef", result |-> Running]
                  [] OTHER -> [pc |-> "done", result |-> ModeInvalidError(m)])
          [] OTHER ->
               (CASE m = ModeRelease -> [pc |-> "ReleaseList", result |-> Running]
                  [] m = ModeTag -> [pc |-> "ForEachRefExclude", result |-> Running]
                  [] OTHER -> [pc |-> "done", result |-> ModeInvalidError(m)])

\* The scan of the release list: latestRefJSON after the loop over the lines
\* of allReleases, each line that unmarshals to a name the pattern matches
\* overwriting it.
RECURSIVE scanReleases(_, _, _)
scanReleases(lines, pattern, latest) ==
    IF lines = << >> THEN latest
    ELSE LET release == UnmarshalRef(Head(lines)).value
         IN  scanReleases(Tail(lines), pattern,
                          IF MatchString(pattern, release.tagName)
                          THEN Head(lines) ELSE latest)

\* The regular expression (v=[0-9]+) of the avatar rewrite.
IsDigit(c) == c \in {"0", "1", "2", "3", "4", "5", "6", "7", "8", "9"}

\* where the leftmost-longest match of (v=[0-9]+) that starts at i ends, 0
\* when none starts there
MatchEnd(s, i) ==
    IF /\ i + 2 <= Len(s)
       /\ s[i] = "v" /\ s[i + 1] = "=" /\ IsDigit(s[i + 2])
    THEN CHOOSE j \in (i + 2)..Len(s) :
             /\ \A k \in (i + 2)..j : IsDigit(s[k])
             /\ j = Len(s) \/ ~IsDigit(s[j + 1])
    ELSE 0

\* the replacement text without its reference to the matched group
avatarReplacement_NoGroup == <<"s", "=", "6", "4", "&", "a", "m", "p", ";">>

\* the replacement text "s=64&amp;$1", "$1" being the text of group 1
avatarReplacement == <<"s", "=", "6", "4", "&", "a", "m", "p", ";", "$1">>

\* (*Regexp).expand: the template with "$1" replaced by the group
RECURSIVE Expand(_, _)
Expand(template, group) ==
    IF template = << >> THEN << >>
    ELSE (IF Head(template) = "$1" THEN group ELSE << Head(template) >>)
             \o Expand(Tail(template), group)

\* reUrl.ReplaceAllString(s, template), from position i on: every match,
\* left to right and not overlapping, replaced by the expanded template
RECURSIVE ReplaceAllString(_, _, _)
ReplaceAllString(s, i, template) ==
    IF i > Len(s) THEN << >>
    ELSE LET j == MatchEnd(s, i)
         IN  IF j > 0
             THEN Expand(template, SubSeq(s, i, j)) \o ReplaceAllString(s, j + 1, template)
             ELSE << s[i] >> \o ReplaceAllString(s, i + 1, template)

\* The loops over the commits and their authors: one entry per author of
\* each commit, in that order, with the avatar URL rewritten.
RECURSIVE Authors(_)
Authors(commits) ==
    IF commits = << >> THEN << >>
    ELSE LET as == Head(commits).Authors
         IN  [i \in 1..Len(as) |->
                  [Login |-> as[i].Login,
                   AvatarURL |-> ReplaceAllString(as[i].AvatarURL, 1, avatarReplacement)]]
             \o Authors(Tail(commits))

\* The block the loop prints for one pull request.
Block(number, pullRequest) ==
    [kind |-> "block", number |-> number, Title |-> pullRequest.Title,
     Authors |-> Authors(pullRequest.Commits), Body |-> pullRequest.Body]

\* the check for an empty list left out
NoPullRequestsFound_Never(list) == FALSE

\* The check after the merged-after query: prList == "".
NoPullRequestsFound(list) == list = EmptyStr

(***************************************************************************)
(* Initial states: the arguments of one run and the state of the source.   *)
(***************************************************************************)
Init ==
    /\ entry \in {"cli", "lib"}
    /\ IF entry = "cli"
       THEN /\ cliMode \in ModeNames
            /\ Verbosity \in 0..MaxVerbosityArg
            /\ mode = nilMode
            /\ pc = "RunE"
       ELSE /\ cliMode = ""
            /\ Verbosity = 0
            /\ mode \in ModeValues
            /\ pc = "MakeReleaseNotes"
    /\ logLevel = defaultLogLevel
    /\ tagName \in TagNames
    /\ releaseCandidateRegex \in Patterns
    /\ currentBranchName \in BranchNames
    /\ defaultBranchName = "main"
    /\ refs \in RefLists
    /\ shaPR \in 0..MaxPRs
    /\ terminated \in BOOLEAN
    /\ result = Running
    /\ calls = << >>
    /\ stdout = << >>
    /\ latestTagCommit = EmptyStr
    /\ prList = EmptyStr
    /\ latestRefJSON = EmptyStr
    /\ latestRef = zeroRef
    /\ pending = << >>

(***************************************************************************)
(* Steps.                                                                  *)
(***************************************************************************)
\* The RunE function of the command, up to its call of MakeReleaseNotes.
RunE ==
    /\ pc = "RunE"
    /\ LET set == setLogVerbosity(Verbosity, logLevel)
           got == GetModeByName(cliMode)
       IN  /\ Verbosity' = set.Verbosity
           /\ logLevel' = set.level
           /\ IF set.panic
              THEN /\ pc' = "done"
                   /\ result' = PanicIndexOutOfRange
                   /\ mode' = mode
              ELSE IF got.err # NoError
                   THEN /\ pc' = "done"
                        /\ result' = got.err
                        /\ mode' = mode
                   ELSE /\ pc' = "MakeReleaseNotes"
                        /\ result' = result
                        /\ mode' = got.mode
    /\ UNCHANGED << inputs, calls, stdout, locals >>

\* MakeReleaseNotes from its entry to its first external command.
Enter ==
    /\ pc = "MakeReleaseNotes"
    /\ IF ~RegexpCompiles(releaseCandidateRegex)
       THEN /\ pc' = "done"
            /\ result' = PanicRegexp
       ELSE LET to == Resolve(tagName, releaseCandidateRegex, currentBranchName,
                              defaultBranchName, mode)
            IN  /\ pc' = to.pc
                /\ result' = to.result
    /\ UNCHANGED << inputs, Verbosity, logLevel, mode, calls, stdout, locals >>

\* latestTagCommit, err := runCmd("git rev-list -n 1 <tag>")
RevList ==
    /\ pc = "RevList"
    /\ \E outcome \in Outcomes(RevListAnswer(tagName)) :
          LET r == runCmd(RevListAnswer(tagName), outcome)
          IN  /\ latestTagCommit' = r.out
              /\ calls' = Append(calls, Call("git rev-list", tagName, 0, outcome))
              /\ stdout' = stdout \o r.printed
    /\ pc' = "PrListBySha"
    /\ UNCHANGED << inputs, Verbosity, logLevel, mode, result, prList,
                    latestRefJSON, latestRef, pending >>

\* prList, err = runCmd("gh pr list --search sha:<commit> ..."), then on to
\* the loop.
PrListBySha ==
    /\ pc = "PrListBySha"
    /\ \E outcome \in Outcomes(PrListByShaAnswer(latestTagCommit)) :
          LET r == runCmd(PrListByShaAnswer(latestTagCommit), outcome)
          IN  /\ prList' = r.out
              /\ pending' = SplitSeq(r.out, NL)
              /\ calls' = Append(calls, Call("gh pr list sha", latestTagCommit, 0, outcome))
              /\ stdout' = stdout \o r.printed
    /\ pc' = "PrView"
    /\ UNCHANGED << inputs, Verbosity, logLevel, mode, result, latestTagCommit,
                    latestRefJSON, latestRef >>

\* latestRefJSON, err = runCmd("gh release view <tag>")
ReleaseView ==
    /\ pc = "ReleaseView"
    /\ \E outcome \in Outcomes(ReleaseViewAnswer(tagName)) :
          LET r == runCmd(ReleaseViewAnswer(tagName), outcome)
          IN  /\ latestRefJSON' = r.out
              /\ calls' = Append(calls, Call("gh release view", tagName, 0, outcome))
              /\ stdout' = stdout \o r.printed
    /\ pc' = "PrListMerged"
    /\ UNCHANGED << inputs, Verbosity, logLevel, mode, result, latestTagCommit,
                    prList, latestRef, pending >>

\* latestRefJSON, err = runCmd("git for-each-ref ... | head -n 1")
ForEachRef ==
    /\ pc = "ForEachRef"
    /\ \E outcome \in Outcomes(ForEachRefAnswer) :
          LET r == runCmd(ForEachRefAnswer, outcome)
          IN  /\ latestRefJSON' = r.out
              /\ calls' = Append(calls, Call("git for-each-ref", EmptyStr, 0, outcome))
              /\ stdout' = stdout \o r.printed
    /\ pc' = "PrListMerged"
    /\ UNCHANGED << inputs, Verbosity, logLevel, mode, result, latestTagCommit,
                    prList, latestRef, pending >>

\* allReleases, err = runCmd("gh release list ..."), and the scan of its lines
ReleaseList ==
    /\ pc = "ReleaseList"
    /\ \E outcome \in Outcomes(ReleaseListAnswer) :
          LET r == runCmd(ReleaseListAnswer, outcome)
          IN  /\ latestRefJSON' = scanReleases(SplitSeq(r.out, NL),
                                               releaseCandidateRegex, latestRefJSON)
              /\ calls' = Append(calls, Call("gh release list", EmptyStr, 0, outcome))
              /\ stdout' = stdout \o r.printed
    /\ pc' = "PrListMerged"
    /\ UNCHANGED << inputs, Verbosity, logLevel, mode, result, latestTagCommit,
                    prList, latestRef, pending >>

\* latestRefJSON, err = runCmd("git for-each-ref --exclude=... | head -n 1")
ForEachRefExclude ==
    /\ pc = "ForEachRefExclude"
    /\ \E outcome \in Outcomes(ForEachRefExcludeAnswer) :
          LET r == runCmd(ForEachRefExcludeAnswer, outcome)
          IN  /\ latestRefJSON' = r.out
              /\ calls' = Append(calls,
                                 Call("git for-each-ref --exclude", EmptyStr, 0, outcome))
              /\ stdout' = stdout \o r.printed
    /\ pc' = "PrListMerged"
    /\ UNCHANGED << inputs, Verbosity, logLevel, mode, result, latestTagCommit,
                    prList, latestRef, pending >>

\* json.Unmarshal(latestRefJSON, &latestRef), the merged-after query and the
\* check for an empty list
PrListMerged ==
    /\ pc = "PrListMerged"
    /\ latestRef' = UnmarshalRef(latestRefJSON).value
    /\ \E outcome \in Outcomes(PrListMergedAnswer(latestRef'.publishedAt)) :
          LET r == runCmd(PrListMergedAnswer(latestRef'.publishedAt), outcome)
          IN  /\ prList' = r.out
              /\ calls' = Append(calls, Call("gh pr list merged", latestRef'.tagName,
                                             latestRef'.publishedAt, outcome))
              /\ stdout' = stdout \o r.printed
              /\ IF NoPullRequestsFound(r.out)
                 THEN /\ pc' = "done"
                      /\ result' = NoPullRequestsFoundError
                      /\ pending' = pending
                 ELSE /\ pc' = "PrView"
                      /\ result' = result
                      /\ pending' = SplitSeq(r.out, NL)
    /\ UNCHANGED << inputs, Verbosity, logLevel, mode, latestTagCommit,
                    latestRefJSON >>

\* One iteration of the loop over the pull-request numbers: the fetch of the
\* details, the unmarshalling and the printing of the block; after the last
\* one the function returns nil.
PrView ==
    /\ pc = "PrView"
    /\ pending # << >>
    /\ LET pullRequestNumber == Head(pending)
       IN  \E outcome \in Outcomes(PrViewAnswer(pullRequestNumber)) :
              LET r == runCmd(PrViewAnswer(pullRequestNumber), outcome)
                  pullRequest == UnmarshalPullRequest(r.out).value
              IN  /\ calls' = Append(calls, Call("gh pr view", pullRequestNumber, 0, outcome))
                  /\ stdout' = stdout \o r.printed
                                 \o << Block(pullRequestNumber, pullRequest) >>
    /\ pending' = Tail(pending)
    /\ IF Tail(pending) = << >>
       THEN /\ pc' = "done"
            /\ result' = NoError
       ELSE /\ pc' = "PrView"
            /\ result' = result
    /\ UNCHANGED << inputs, Verbosity, logLevel, mode, latestTagCommit, prList,
                    latestRefJSON, latestRef >>

Next ==
    \/ RunE
    \/ Enter
    \/ RevList
    \/ PrListBySha
    \/ ReleaseView
    \/ ForEachRef
    \/ ReleaseList
    \/ ForEachRefExclude
    \/ PrListMerged
    \/ PrView

Spec == Init /\ [][Next]_vars


(***************************************************************************)
(* Vocabulary of the properties.                                           *)
(***************************************************************************)
\* MakeReleaseNotes has been called and has run its first statements
Entered ==
    /\ pc \notin {"RunE", "MakeReleaseNotes"}
    /\ result.kind \notin {"ModeGetByNameError", "panic: index out of range"}
Compiles == RegexpCompiles(releaseCandidateRegex)
IsCandidate == MatchString(releaseCandidateRegex, tagName)
OnDefault == currentBranchName = defaultBranchName
ValidMode == mode \in {ModeRelease, ModeTag}
IsError == result.kind \notin {"nil", "running"}

IsBlock(e) == e.kind = "block"
Blocks == SelectSeq(stdout, IsBlock)
BlockNumbers == [i \in 1..Len(Blocks) |-> Blocks[i].number]

CallsOf(ops) == SelectSeq(calls, LAMBDA c : c.op \in ops)
ListingOps ==
    {"gh release view", "gh release list", "git for-each-ref",
     "git for-each-ref --exclude"}
MergedOps == {"gh pr list merged"}
ResolutionOps ==
    ListingOps \cup MergedOps \cup {"git rev-list", "gh pr list sha"}
AllOk(cs) == \A i \in 1..Len(cs) : cs[i].outcome = "ok"

\* the references of the source whose name the pattern does not match
StableRefs ==
    SelectSeq(refs, LAMBDA r : ~MatchString(releaseCandidateRegex, r.tagName))
\* the numbers the merged-after query of the source yields for a cutoff
MergedAfter(after) ==
    LET merged == SelectSeq(SourcePRs, LAMBDA p : p.mergedAt > after)
    IN  [i \in 1..Len(merged) |-> merged[i].number]

(***************************************************************************)
(* C1.  A tag that is not on the default branch and does not match the     *)
(* release-candidate pattern: MakeReleaseNotes returns                     *)
(* DefaultBranchReleaseCandidateError, whatever the mode, and no external  *)
(* command is issued and nothing is written.                               *)
(***************************************************************************)
C1_DefaultBranchRestriction ==
    (~OnDefault /\ Compiles /\ ~IsCandidate) =>
        /\ calls = << >>
        /\ stdout = << >>
        /\ Entered => (pc = "done" /\ result = DefaultBranchReleaseCandidateError)

C1_Witness ==
    /\ ~OnDefault /\ Compiles /\ ~IsCandidate
    /\ Entered
    /\ pc = "done"
    /\ result = DefaultBranchReleaseCandidateError


(***************************************************************************)
(* C2.  A tag on the default branch that does not match the pattern, in    *)
(* Release or Tag mode, once the listing command has succeeded: the cutoff *)
(* the merged-after query is given is the publish time of the newest       *)
(* reference of the source whose name the pattern does not match.          *)
(***************************************************************************)
C2_CutoffIsLatestStable ==
    ( /\ OnDefault /\ Compiles /\ ~IsCandidate /\ ValidMode
      /\ CallsOf(ListingOps) # << >> /\ AllOk(CallsOf(ListingOps))
      /\ CallsOf(MergedOps) # << >>
      /\ StableRefs # << >> ) =>
        CallsOf(MergedOps)[1].after = StableRefs[1].publishedAt

(***************************************************************************)
(* C3.  A tag on the default branch that matches the pattern, in Release   *)
(* or Tag mode, once the lookup has succeeded: the cutoff the merged-after *)
(* query is given is the publish time of the newest reference of the       *)
(* source, whatever its name and whatever tag was passed in.               *)
(***************************************************************************)
C3_CutoffIsLatest ==
    ( /\ OnDefault /\ Compiles /\ IsCandidate /\ ValidMode
      /\ CallsOf(ListingOps) # << >> /\ AllOk(CallsOf(ListingOps))
      /\ CallsOf(MergedOps) # << >>
      /\ refs # << >> ) =>
        CallsOf(MergedOps)[1].after = refs[1].publishedAt

(***************************************************************************)
(* C4.  On the cutoff path, when the merged-after query yields no pull     *)
(* request (the source has none merged after the cutoff, or the query      *)
(* failed), MakeReleaseNotes has returned NoPullRequestsFoundError, no     *)
(* pull request was fetched and no block was written.                      *)
(***************************************************************************)
C4_NoPullRequestsFound ==
    \A i \in 1..Len(calls) :
        ( /\ calls[i].op \in MergedOps
          /\ (calls[i].outcome # "ok" \/ MergedAfter(calls[i].after) = << >>) ) =>
            /\ pc = "done"
            /\ result = NoPullRequestsFoundError
            /\ CallsOf({"gh pr view"}) = << >>
            /\ Blocks = << >>

C4_Witness ==
    /\ pc = "done"
    /\ CallsOf(MergedOps) # << >>
    /\ CallsOf(MergedOps)[1].outcome = "ok"
    /\ CallsOf(MergedOps)[1].after > 0
    /\ MergedAfter(CallsOf(MergedOps)[1].after) = << >>
    /\ result = NoPullRequestsFoundError

(***************************************************************************)
(* C5.  When the run has ended and the fetch of some pull request failed,  *)
(* the run ended with an error and wrote no block.                         *)
(***************************************************************************)
C5_FetchFailureIsFatal ==
    ( /\ pc = "done"
      /\ ~AllOk(CallsOf({"gh pr view"})) ) =>
        /\ IsError
        /\ Blocks = << >>

(***************************************************************************)
(* C6.  A lookup of the reference resolution that failed is the last       *)
(* external command of the run: MakeReleaseNotes has returned an error     *)
(* and nothing was rendered.                                               *)
(***************************************************************************)
C6_LookupFailureReturns ==
    \A i \in 1..Len(calls) :
        (calls[i].op \in ResolutionOps /\ calls[i].outcome # "ok") =>
            /\ i = Len(calls)
            /\ pc = "done"
            /\ IsError
            /\ Blocks = << >>

(***************************************************************************)
(* C7.  A run that ended without error wrote one block per pull-request    *)
(* number the source returned, in the order the source returned them, and  *)
(* no other block.                                                         *)
(***************************************************************************)
\* the pull-request numbers the source returned to the run's list query
ReturnedNumbers ==
    LET q == CallsOf(MergedOps \cup {"gh pr list sha"})
    IN  IF q = << >> \/ q[1].outcome # "ok" THEN << >>
        ELSE IF q[1].op \in MergedOps THEN MergedAfter(q[1].after)
        ELSE IF shaPR # 0 THEN << AllPRs[shaPR].number >> ELSE << >>

C7_BlocksInSourceOrder ==
    (pc = "done" /\ result = NoError) => BlockNumbers = ReturnedNumbers

(***************************************************************************)
(* C8 as claimed.  A mode that is neither ModeRelease nor ModeTag makes    *)
(* MakeReleaseNotes return ModeInvalidError with that mode in every row of *)
(* the decision table.                                                     *)
(***************************************************************************)
C8_InvalidModeEveryRow ==
    (Entered /\ Compiles /\ ~ValidMode) =>
        (pc = "done" /\ result = ModeInvalidError(mode))

(***************************************************************************)
(* C8 as amended.  With a mode that is neither ModeRelease nor ModeTag:    *)
(* on the default branch (candidate or not) MakeReleaseNotes returns       *)
(* ModeInvalidError with that mode before any external command; off the    *)
(* default branch the mode is not examined: a non-candidate tag returns    *)
(* DefaultBranchReleaseCandidateError and a candidate tag takes the        *)
(* single-pull-request path and never returns ModeInvalidError.            *)
(***************************************************************************)
C8_InvalidModeOnDefaultBranch ==
    (Entered /\ Compiles /\ ~ValidMode) =>
        IF OnDefault
        THEN pc = "done" /\ result = ModeInvalidError(mode) /\ calls = << >>
        ELSE IF IsCandidate
             THEN /\ result.kind # "ModeInvalidError"
                  /\ calls # << >> => calls[1].op = "git rev-list"
                  /\ pc # "done" \/ calls # << >>
             ELSE pc = "done" /\ result = DefaultBranchReleaseCandidateError

C8_Witness ==
    /\ Entered /\ Compiles /\ OnDefault
    /\ mode = ModeCustom
    /\ pc = "done"
    /\ result = ModeInvalidError(ModeCustom)

(***************************************************************************)
(* C9.  A candidate tag that is not on the default branch: no listing and  *)
(* no merged-after query is issued, and once the two lookups have          *)
(* succeeded and the run has ended, the blocks written are exactly those   *)
(* of the pull requests found for the tag's commit: one block when a pull  *)
(* request matches, none when none does.                                   *)
(***************************************************************************)
C9_SinglePullRequestPath ==
    (~OnDefault /\ Compiles /\ IsCandidate) =>
        /\ CallsOf(ListingOps \cup MergedOps) = << >>
        /\ ( /\ pc = "done"
             /\ Len(CallsOf({"git rev-list", "gh pr list sha"})) = 2
             /\ AllOk(CallsOf({"git rev-list", "gh pr list sha"})) ) =>
               BlockNumbers = (IF shaPR # 0 THEN << AllPRs[shaPR].number >> ELSE << >>)

(***************************************************************************)
(* C10.  GetModes is [ModeRelease, ModeTag]; GetModeByName gives the mode  *)
(* of that name for "release" and "tag" and nilMode with                   *)
(* ModeGetByNameError{name} for every other name; and a run of the command *)
(* whose mode name is unknown ends, once the lookup is made, with that     *)
(* error, MakeReleaseNotes not called and no external command issued.      *)
(***************************************************************************)
C10_ModeRegistry ==
    /\ GetModes = << ModeRelease, ModeTag >>
    /\ LET got == GetModeByName(cliMode)
       IN  IF cliMode \in {"release", "tag"}
           THEN /\ got.err = NoError
                /\ got.mode \in {ModeRelease, ModeTag}
                /\ got.mode.Name = cliMode
           ELSE /\ got.mode = nilMode
                /\ got.err = ModeGetByNameError(cliMode)
    /\ ( /\ entry = "cli"
         /\ pc # "RunE"
         /\ result # PanicIndexOutOfRange ) =>
           IF cliMode \in {"release", "tag"}
           THEN mode.Name = cliMode /\ ValidMode
           ELSE /\ pc = "done"
                /\ result = ModeGetByNameError(cliMode)
                /\ ~Entered
                /\ calls = << >>
                /\ stdout = << >>

C10_Witness ==
    /\ entry = "cli"
    /\ cliMode = "Release"
    /\ pc = "done"
    /\ result = ModeGetByNameError("Release")
    /\ calls = << >>

(***************************************************************************)
(* C11.  Everything on standard output is part of the rendered document:   *)
(* every entry written is the block of a pull request, and no diagnostic   *)
(* of an external command (its error, its debug line) is ever among them,  *)
(* whether the command succeeded or failed.                                *)
(***************************************************************************)
C11_StdoutOnlyDocument ==
    \A i \in 1..Len(stdout) : IsBlock(stdout[i])

(***************************************************************************)
(* C12 as claimed.  In every block written for a pull request the entries  *)
(* are those of the authors of its commits, and each rendered avatar URL   *)
(* is the author's URL with "s=64&" put before every occurrence of         *)
(* v=<digits>; a URL with no such occurrence is rendered unchanged.        *)
(***************************************************************************)
\* the positions of url where an occurrence of v=<digits> starts
VersionStarts(url) ==
    {i \in 1..Len(url) :
        i + 2 <= Len(url) /\ url[i] = "v" /\ url[i + 1] = "=" /\ IsDigit(url[i + 2])}

\* url, from position i on, with insert put before every such occurrence
RECURSIVE InsertBefore(_, _, _)
InsertBefore(url, i, insert) ==
    IF i > Len(url) THEN << >>
    ELSE (IF i \in VersionStarts(url) THEN insert ELSE << >>)
             \o << url[i] >> \o InsertBefore(url, i + 1, insert)

\* the authors the source holds for the pull request a block is about: one
\* per author of each commit, in order (none for a failed fetch)
RECURSIVE CommitAuthors(_)
CommitAuthors(commits) ==
    IF commits = << >> THEN << >>
    ELSE Head(commits).Authors \o CommitAuthors(Tail(commits))

SourceAuthors(b) ==
    LET known == {k \in 1..Len(AllPRs) : PullRequestOf(k).Title = b.Title}
    IN  IF known = {} THEN << >>
        ELSE CommitAuthors(CommitsOf(CHOOSE k \in known : TRUE))

RenderedWith(insert) ==
    \A n \in 1..Len(Blocks) :
        LET b == Blocks[n]
            src == SourceAuthors(b)
        IN  /\ Len(b.Authors) = Len(src)
            /\ \A i \in 1..Len(src) :
                   /\ b.Authors[i].Login = src[i].Login
                   /\ b.Authors[i].AvatarURL = InsertBefore(src[i].AvatarURL, 1, insert)

C12_AvatarSizeAmpersand == RenderedWith(<<"s", "=", "6", "4", "&">>)

(***************************************************************************)
(* C12 as amended.  The text put before every occurrence of v=<digits> is  *)
(* "s=64&amp;" (the ampersand as an HTML entity), so a URL ending in ?v=4  *)
(* renders ending in ?s=64&amp;v=4; a URL with no such occurrence is       *)
(* rendered unchanged.                                                     *)
(***************************************************************************)
C12_AvatarSizeEntity ==
    RenderedWith(<<"s", "=", "6", "4", "&", "a", "m", "p", ";">>)

C12_Witness ==
    \E n \in 1..Len(Blocks) :
        /\ Len(Blocks[n].Authors) = 3
        /\ SourceAuthors(Blocks[n])[2].AvatarURL = UrlV4
        /\ Blocks[n].Authors[2].AvatarURL =
               <<"a", "?", "s", "=", "6", "4", "&", "a", "m", "p", ";", "v", "=", "4">>
        /\ SourceAuthors(Blocks[n])[3].AvatarURL = UrlNone
        /\ Blocks[n].Authors[3].AvatarURL = UrlNone

(***************************************************************************)
(* C13.  The step of the command that runs setLogVerbosity: a verbosity    *)
(* of 1 or more is capped at the number of log levels after the default    *)
(* one, so a verbosity below that maximum is left as given, the index      *)
(* defaultLogLevelIndex + Verbosity is within AllLogLevels (no panic) and  *)
(* the logger gets the level at that index; a verbosity of 0 or less       *)
(* leaves the verbosity and the log level as they were.                    *)
(***************************************************************************)
MaxAllowedVerbosity == Len(AllLogLevels) - logLevelIndex(defaultLogLevel) - 1
Min(a, b) == IF a <= b THEN a ELSE b

C13_VerbosityCapped ==
    [][ pc = "RunE" =>
          IF Verbosity >= 1
          THEN /\ Verbosity' = Min(Verbosity, MaxAllowedVerbosity)
               /\ result' # PanicIndexOutOfRange
               /\ logLevel' = AllLogLevels[logLevelIndex(defaultLogLevel) + Verbosity' + 1]
          ELSE /\ Verbosity' = Verbosity
               /\ logLevel' = logLevel ]_vars

=============================================================================
